---- MODULE Spec2Model ----
(***************************************************************************)
(* Verification model of the mosaic-selection pipeline:                    *)
(*   C2  src/code/2-compatibility-greedy.py   run_processing_pipeline      *)
(*   C3  src/code/2-compatibility-greedy.py   heuristica_gulosa            *)
(*   C4  src/code/2.2-calc-area-2a2.py        calculate_coverage_twotwo    *)
(*   C5  src/code/3-CPLEX.py                  solve_mosaic_selection_milp  *)
(*                                                                         *)
(* Numbers are fixed-point integers:                                       *)
(*   cloud_coverage          in 1/10000   (0.40 = 4000, 0.4001 = 4001)     *)
(*   coverage, quality       in 1/100     (0.85 = 85)                      *)
(*   objective               in 1/100000  (10 * coverage * quality)        *)
(*   areas                   in grid cells                                 *)
(***************************************************************************)
EXTENDS Integers, Sequences, FiniteSets, TLC

VARIABLES
    image_catalog,           \* C5: optimization_params['image_catalog']
    mosaic_groups,           \* C5: optimization_params['mosaic_groups']
    milp_pc,                 \* C5: "load" | "done"
    mdl,                     \* C5: the docplex model built by the call
    selected_groups_details, \* C5: first component of the returned tuple
    model_vars,              \* C5: second component of the returned tuple
    main_report,             \* C5: what main() saved, validated and logged
    date_repr,               \* C3: how tile dates reach the composer
    raster_crs,              \* C3: CRS of the true-color rasters
    params,                  \* C4: the mosaic group read from JSON_PATH
    result_params,           \* C4: the mosaic group calculate_coverage_twotwo returned
    area_pc,                 \* C4: "idle" | "loading" | "run1" | "run2"
    image_metadata,          \* C3: accepted tiles, by class
    greedy_pc,               \* C3: "load" | "done" | "raised"
    good_mosaic_combinations,\* C3: the list heuristica_gulosa returned
    optimization_params,     \* C3: the artefact written for C4 and C5
    downstream,              \* C3: what C4 and C5 make of that artefact
    zip_index,               \* C2: bundles of zip_files the loop has gone through
    all_processed_metadata,  \* C2: the results the loop collected
    stats,                   \* C2: the counters of run_processing_pipeline
    temp_dirs,               \* C2: directories that exist under TEMP_EXTRACT_DIR
    ingest_pc                \* C2: "idle" | "loop"

vars == <<image_catalog, mosaic_groups, milp_pc, mdl,
          selected_groups_details, model_vars, main_report,
          date_repr, raster_crs, image_metadata, greedy_pc,
          good_mosaic_combinations,
          optimization_params, downstream, params, result_params, area_pc,
          zip_index, all_processed_metadata, stats, temp_dirs, ingest_pc>>

----------------------------------------------------------------------------
(* Generic helpers                                                         *)

Min2(a, b) == IF a <= b THEN a ELSE b

Max2(a, b) == IF a >= b THEN a ELSE b

Range(s) == {s[i] : i \in DOMAIN s}

RECURSIVE SumOver(_, _)
SumOver(S, f) ==
    IF S = {} THEN 0
    ELSE LET x == CHOOSE e \in S : TRUE
         IN  f[x] + SumOver(S \ {x}, f)

RECURSIVE MaxOver(_)
MaxOver(S) ==
    IF S = {} THEN 0
    ELSE LET x == CHOOSE e \in S : TRUE
             r == S \ {x}
         IN  IF r = {} THEN x ELSE Max2(x, MaxOver(r))

None == [tag |-> "None"]

Abs(x) == IF x < 0 THEN -x ELSE x

\* sorted(xs, key=..., reverse=True): positions of xs by descending key,
\* equal keys in their original order (the sort is stable).
SortedDescending(keys) ==
    LET n == Len(keys)
        rank(i) == Cardinality({j \in 1..n : keys[j] > keys[i] \/ (keys[j] = keys[i] /\ j < i)})
    IN  [p \in 1..n |-> CHOOSE i \in 1..n : rank(i) = p - 1]

milp_vars == <<image_catalog, mosaic_groups, milp_pc, mdl,
               selected_groups_details, model_vars, main_report>>

greedy_vars == <<date_repr, raster_crs, image_metadata, greedy_pc,
                 good_mosaic_combinations,
                 optimization_params, downstream>>

\* Each program of the pipeline is a separate process run; while one runs
\* the state of the others is the state before their start.
ingest_vars == <<zip_index, all_processed_metadata, stats, temp_dirs, ingest_pc>>

IngestIdle ==
    /\ zip_index = 0
    /\ all_processed_metadata = <<>>
    /\ stats = None
    /\ temp_dirs = {}
    /\ ingest_pc = "idle"

MilpIdle ==
    /\ image_catalog = <<>>
    /\ mosaic_groups = <<>>
    /\ milp_pc = "idle"
    /\ mdl = None
    /\ selected_groups_details = <<>>
    /\ model_vars = None
    /\ main_report = None

area_vars == <<params, result_params, area_pc>>

AreaIdle ==
    /\ params = None
    /\ result_params = None
    /\ area_pc = "idle"

GreedyIdle ==
    /\ date_repr = "str"
    /\ raster_crs = "EPSG:32724"
    /\ image_metadata = [central |-> <<>>, complement |-> <<>>]
    /\ greedy_pc = "idle"
    /\ good_mosaic_combinations = <<>>
    /\ optimization_params = None
    /\ downstream = None

----------------------------------------------------------------------------
(* C5 - solve_mosaic_selection_milp (src/code/3-CPLEX.py)                  *)

\* Input bounds of the MILP runs: mosaics per artefact, and mosaics per
\* artefact when no two of them share a tile.
MaxGroups == 2

MaxDisjointGroups == 7

\* Values the loaded artefact draws its fields from.
CloudValues == {500, 4000, 4001}

SharedCloudValues == {1000, 4100}

CoverageValues == {80, 100}

QualityValues == {50, 100}

\* Filenames: two tiles that several mosaics may list, and one tile of its
\* own per mosaic, named after the mosaic's position in the list.
SharedTileA == <<"shared", "a">>

SharedTileB == <<"shared", "b">>

OwnTile(j) == <<"own", ToString(j)>>

SharedImageLists == {<<>>, <<SharedTileA>>, <<SharedTileA, SharedTileB>>}

\* Weights and thresholds of the model.
alpha == 4

gamma == 8

cloud_threshold == 4000

min_total_coverage == 85

GroupIds == {mosaic_groups[i].group_id : i \in DOMAIN mosaic_groups}

GroupOf(gid) == CHOOSE g \in Range(mosaic_groups) : g.group_id = gid

\* lines 100-107: max cloud_coverage over the catalog entries of the
\* group's images, 0 when no image of the group is in the catalog.
MaxCloudCoverage(group) ==
    LET cloud_coverages ==
            {image_catalog[k].cloud_coverage :
                k \in {c \in DOMAIN image_catalog :
                          \E p \in DOMAIN group.images :
                              image_catalog[c].filename = group.images[p]}}
    IN  IF cloud_coverages # {} THEN MaxOver(cloud_coverages) ELSE 0

group_cloud_coverages == [gid \in GroupIds |-> MaxCloudCoverage(GroupOf(gid))]

\* lines 30-43
calculate_group_coverage(group) ==
    IF "geometric_coverage" \in DOMAIN group THEN group.geometric_coverage ELSE 0

group_coverages == [gid \in GroupIds |-> calculate_group_coverage(GroupOf(gid))]

\* line 109
group_qualities ==
    [gid \in GroupIds |->
        IF "quality_factor" \in DOMAIN GroupOf(gid)
        THEN GroupOf(gid).quality_factor ELSE 100]

\* lines 140-143: the generator reads group_qualities[group_id], where
\* group_id is the function's local left by the loop of lines 95-110, that
\* is the id of the last group of the list.
LoopGroupId == mosaic_groups[Len(mosaic_groups)].group_id

CoverageQualityCoeff(gid) == 10 * group_coverages[gid] * group_qualities[LoopGroupId]

\* lines 140-153: coefficient of y[gid] in the objective, in 1/100000.
ObjectiveCoeff(gid) ==
    CoverageQualityCoeff(gid) - alpha * 10000 - gamma * group_cloud_coverages[gid]

\* lines 156-162: y[gid] == 0 for the groups over the cloud threshold.
ExcludeHighCloudLax == {gid \in GroupIds : group_cloud_coverages[gid] > cloud_threshold + 100}

ExcludeHighCloud == {gid \in GroupIds : group_cloud_coverages[gid] > cloud_threshold}

\* lines 168-172: image_to_groups[image] lists a group once per occurrence
\* of the image in its images list.
AllImages == UNION {Range(mosaic_groups[i].images) : i \in DOMAIN mosaic_groups}

Occurrences(image, i) ==
    Cardinality({p \in DOMAIN mosaic_groups[i].images : mosaic_groups[i].images[p] = image})

GroupsWithImageCount(image) ==
    SumOver(DOMAIN mosaic_groups, [i \in DOMAIN mosaic_groups |-> Occurrences(image, i)])

\* lines 174-180: one exclusivity constraint per image listed more than once.
ExclusivityImagesNone == {}

ExclusivityImages == {image \in AllImages : GroupsWithImageCount(image) > 1}

ExclusivityHolds(Y, images) ==
    \A image \in images :
        SumOver({i \in DOMAIN mosaic_groups : mosaic_groups[i].group_id \in Y},
                [i \in DOMAIN mosaic_groups |-> Occurrences(image, i)]) <= 1

\* lines 189-195: one pair variable per pair of list positions i < j.
GroupPairKeys ==
    {<<mosaic_groups[q[1]].group_id, mosaic_groups[q[2]].group_id>> :
        q \in {r \in (DOMAIN mosaic_groups) \X (DOMAIN mosaic_groups) : r[1] < r[2]}}

\* lines 204-210: y_j + y_k - 1 <= o_jk, o_jk <= y_j, o_jk <= y_k; with
\* binary variables the only value of o_jk left is the conjunction.
PairValues(Y) == [key \in GroupPairKeys |-> IF key[1] \in Y /\ key[2] \in Y THEN 1 ELSE 0]

\* Intersections are kept as exact fractions of 1/100 of the AOI:
\* value = num / IntersectionScale.
IntersectionScale == 3 * 4 * 5

\* lines 218-222: AOI area from the first group that carries both fields.
AoiAreaOf(groups) ==
    LET with == {i \in DOMAIN groups :
                    /\ "geometric_coverage_m2" \in DOMAIN groups[i]
                    /\ "geometric_coverage" \in DOMAIN groups[i]}
    IN  IF with = {} THEN 100
        ELSE LET f == CHOOSE i \in with : \A k \in with : i <= k
             IN  (groups[f].geometric_coverage_m2 * 100) \div groups[f].geometric_coverage

\* lines 228-280: I_jk from the share of images the two groups have in common.
Intersection(group1, group2) ==
    LET g1_images == Range(group1.images)
        g2_images == Range(group2.images)
        shared_images == g1_images \cap g2_images
    IN  IF shared_images = {} THEN 0
        ELSE IF /\ "geometric_coverage_m2" \in DOMAIN group1
                /\ "geometric_coverage_m2" \in DOMAIN group2
        THEN (Min2(group1.geometric_coverage_m2, group2.geometric_coverage_m2)
                * Cardinality(shared_images) * 100 * IntersectionScale)
             \div (Min2(Cardinality(g1_images), Cardinality(g2_images))
                     * AoiAreaOf(mosaic_groups))
        ELSE (Min2(calculate_group_coverage(group1), calculate_group_coverage(group2))
                * Cardinality(shared_images) * IntersectionScale)
             \div (2 * Cardinality(g1_images \cup g2_images))

group_intersections ==
    [key \in GroupPairKeys |-> Intersection(GroupOf(key[1]), GroupOf(key[2]))]

\* The objective and the constraints handed to the solver (lines 140-295).
BuildModel ==
    [objective              |-> [gid \in GroupIds |-> ObjectiveCoeff(gid)],
     exclude_high_cloud     |-> ExcludeHighCloud,
     exclusivity            |-> ExclusivityImages,
     group_pairs            |-> GroupPairKeys,
     group_coverages        |-> group_coverages,
     group_intersections    |-> group_intersections,
     minimum_total_coverage |-> min_total_coverage]

\* lines 140-153: value of the objective for the assignment y = 1 on Y.
ObjectiveValue(Y, m) == SumOver(Y, m.objective)

\* lines 285-295: sum A_j y_j - sum I_jk o_jk, times IntersectionScale.
CoverageExpr(Y, m) ==
    IntersectionScale * SumOver(Y, m.group_coverages)
    - SumOver({key \in m.group_pairs :
                  m.group_intersections[key] > 0 /\ key[1] \in Y /\ key[2] \in Y},
              m.group_intersections)

MinimumTotalCoverageNone(Y, m) == TRUE

MinimumTotalCoverage(Y, m) ==
    CoverageExpr(Y, m) >= m.minimum_total_coverage * IntersectionScale

\* lines 331-337: the sum of the selected coverages minus the intersection
\* of every pair of selected groups, times IntersectionScale.
TrueCoverage(Y, m) ==
    IntersectionScale * SumOver(Y, m.group_coverages)
    - SumOver({key \in DOMAIN m.group_intersections : key[1] \in Y /\ key[2] \in Y},
              m.group_intersections)

Feasible(Y, m) ==
    /\ Y \cap m.exclude_high_cloud = {}
    /\ ExclusivityHolds(Y, m.exclusivity)
    /\ MinimumTotalCoverage(Y, m)

FeasibleSet(m) == {Y \in SUBSET GroupIds : Feasible(Y, m)}

\* line 299: mdl.solve() returns an optimal assignment, or nothing when the
\* model is infeasible.
BestValue(F, m) == MaxOver({ObjectiveValue(Y, m) : Y \in F})

Solutions(m) ==
    UNION {UNION {{Y \in F : ObjectiveValue(Y, m) = best} : best \in {BestValue(F, m)}} :
              F \in {FeasibleSet(m)}}

\* lines 311-315: the selected groups in the order of the input list.
SelectedDetails(Y) ==
    SelectSeq(mosaic_groups, LAMBDA g : g.group_id \in Y)

\* The artefact read by main() (lines 763-765), one mosaic group at a time.
NewGroup(j, shared, coverage, quality) ==
    [group_id              |-> j,
     images                |-> <<OwnTile(j)>> \o shared,
     geometric_coverage    |-> coverage,
     geometric_coverage_m2 |-> coverage,
     quality_factor        |-> quality]

LoadGroup ==
    /\ milp_pc = "load"
    /\ Len(mosaic_groups) < MaxGroups
    /\ \E shared \in SharedImageLists, cloud \in CloudValues,
          coverage \in CoverageValues, quality \in QualityValues :
          LET j == Len(mosaic_groups) + 1
          IN  /\ mosaic_groups' = Append(mosaic_groups, NewGroup(j, shared, coverage, quality))
              /\ image_catalog' = Append(image_catalog,
                                         [filename |-> OwnTile(j), cloud_coverage |-> cloud])
    /\ UNCHANGED <<milp_pc, mdl, selected_groups_details, model_vars, main_report>>
    /\ UNCHANGED greedy_vars
    /\ UNCHANGED area_vars
    /\ UNCHANGED ingest_vars

\* An artefact whose mosaics are pairwise disjoint in tiles and all clean
\* with quality 1, one mosaic group at a time.
LoadDisjointGroup ==
    /\ milp_pc = "load"
    /\ Len(mosaic_groups) < MaxDisjointGroups
    /\ \E coverage \in CoverageValues :
          LET j == Len(mosaic_groups) + 1
          IN  /\ mosaic_groups' = Append(mosaic_groups, NewGroup(j, <<>>, coverage, 100))
              /\ image_catalog' = Append(image_catalog,
                                         [filename |-> OwnTile(j), cloud_coverage |-> 500])
    /\ UNCHANGED <<milp_pc, mdl, selected_groups_details, model_vars, main_report>>
    /\ UNCHANGED greedy_vars
    /\ UNCHANGED area_vars
    /\ UNCHANGED ingest_vars

\* lines 512-517: the selected ids by descending coverage; sorted() is
\* stable, so equal coverages stay in the order of selected_group_ids.
SortedGroups(mv) ==
    LET ids == mv.selected_group_ids
        order == SortedDescending([i \in DOMAIN ids |-> mv.group_coverages[ids[i]]])
    IN  [p \in DOMAIN ids |-> ids[order[p]]]

\* lines 536-540: the intersection of a pair, looked up under either key
\* order, 0 when the pair has no entry.
IntersectionEitherOrder(mv, prev_id, group_id) ==
    IF <<prev_id, group_id>> \in DOMAIN mv.group_intersections
    THEN mv.group_intersections[<<prev_id, group_id>>]
    ELSE IF <<group_id, prev_id>> \in DOMAIN mv.group_intersections
    THEN mv.group_intersections[<<group_id, prev_id>>]
    ELSE 0

\* lines 526-572: the step of the i-th group of sorted_groups, coverage and
\* increment in 1/100 times IntersectionScale.
MilpStep(mv, sorted_groups, i) ==
    LET group_id == sorted_groups[i]
        coverage == IntersectionScale * mv.group_coverages[group_id]
        current_covered_groups == {sorted_groups[k] : k \in 1..(i - 1)}
        overlaps_with_previous ==
            SumOver(current_covered_groups,
                    [prev_id \in current_covered_groups |->
                        IntersectionEitherOrder(mv, prev_id, group_id)])
    IN  [group_id        |-> group_id,
         MILP_individual |-> coverage,
         MILP_incremento |-> IF i = 1 THEN coverage
                             ELSE Max2(0, coverage - overlaps_with_previous)]

\* lines 512-599: the incremental coverage of the selection.
CoverageMilp(mv) ==
    LET sorted_groups == SortedGroups(mv)
        MILP_steps == [i \in DOMAIN sorted_groups |-> MilpStep(mv, sorted_groups, i)]
        true_coverage ==
            SumOver(DOMAIN MILP_steps,
                    [i \in DOMAIN MILP_steps |-> MILP_steps[i].MILP_incremento])
    IN  [true_coverage |-> true_coverage,
         min_required  |-> mv.min_total_coverage * IntersectionScale,
         satisfied     |-> true_coverage >= mv.min_total_coverage * IntersectionScale,
         MILP_steps    |-> MILP_steps]

\* validate_cplex_decisions, lines 433-458, 512-599 and 601-631: the
\* components of the objective recomputed for the selection (in 1/100000,
\* with quality 1.0), the incremental coverage, and the pair variables of
\* the pairs with a selected group.
validate_cplex_decisions(mv) ==
    LET selected == Range(mv.selected_group_ids)
    IN
    [objective |->
        [coverage_quality   |-> 1000 * SumOver(selected, mv.group_coverages),
         num_groups_penalty |-> alpha * 10000 * Cardinality(selected),
         cloud_penalty      |-> gamma * SumOver(selected, mv.group_cloud_coverages)],
     coverage_MILP |-> CoverageMilp(mv),
     logical_pairs |->
        {[groups     |-> key,
          y1         |-> key[1] \in selected,
          y2         |-> key[2] \in selected,
          pair_value |-> mv.group_pairs[key]] :
            key \in {k \in DOMAIN mv.group_pairs : k[1] \in selected \/ k[2] \in selected}}]

\* main, lines 774-803: a non-empty selection is saved and, with
\* model_vars, validated; an empty one is only logged.
MainReportUnguarded(selection, mv, error) ==
    [saved      |-> selection,
     validation |-> [objective |-> None, logical_pairs |-> {}],
     error      |-> error,
     warning    |-> ""]

MainReport(selection, mv, error) ==
    IF selection # <<>>
    THEN [saved      |-> selection,
          validation |-> IF mv # None THEN validate_cplex_decisions(mv) ELSE None,
          error      |-> error,
          warning    |-> ""]
    ELSE [saved      |-> None,
          validation |-> None,
          error      |-> error,
          warning    |-> "Nenhum grupo de mosaico selecionado pela otimizacao"]

\* The returned tuple of a solved model, lines 311-361.
ModelVars(Y) ==
    [tag                   |-> "model_vars",
     y                     |-> Y,
     group_pairs           |-> PairValues(Y),
     group_coverages       |-> group_coverages,
     group_cloud_coverages |-> group_cloud_coverages,
     group_intersections   |-> group_intersections,
     selected_group_ids    |-> [i \in DOMAIN SelectedDetails(Y) |->
                                    SelectedDetails(Y)[i].group_id],
     min_total_coverage    |-> min_total_coverage]

\* solve_mosaic_selection_milp, lines 45-364, as main calls it (lines
\* 774-803).
SolveMilp ==
    /\ milp_pc = "load"
    /\ milp_pc' = "done"
    /\ UNCHANGED <<image_catalog, mosaic_groups>>
    /\ UNCHANGED greedy_vars
    /\ UNCHANGED area_vars
    /\ UNCHANGED ingest_vars
    /\ IF mosaic_groups = <<>>
       THEN /\ selected_groups_details' = <<>>
            /\ model_vars' = None
            /\ mdl' = None
            /\ main_report' =
                  MainReport(<<>>, None, "Nenhum grupo de mosaico encontrado nos parametros")
       ELSE \E m \in {BuildModel} : \E solutions \in {Solutions(m)} :
            /\ mdl' = m
            /\ IF solutions = {}
               THEN /\ selected_groups_details' = <<>>
                    /\ model_vars' = None
                    /\ main_report' =
                          MainReport(<<>>, None, "Nenhuma solucao viavel encontrada pelo CPLEX")
               ELSE \E Y \in solutions :
                    /\ selected_groups_details' = SelectedDetails(Y)
                    /\ model_vars' = ModelVars(Y)
                    /\ main_report' = MainReport(SelectedDetails(Y), ModelVars(Y), "")

InitMilp ==
    /\ \E cloud \in SharedCloudValues :
          image_catalog = <<[filename |-> SharedTileA, cloud_coverage |-> 1000],
                            [filename |-> SharedTileB, cloud_coverage |-> cloud]>>
    /\ mosaic_groups = <<>>
    /\ milp_pc = "load"
    /\ mdl = None
    /\ selected_groups_details = <<>>
    /\ model_vars = None
    /\ main_report = None
    /\ GreedyIdle
    /\ AreaIdle
    /\ IngestIdle

NextMilp == LoadGroup \/ SolveMilp

SpecMilp == InitMilp /\ [][NextMilp]_vars

InitDisjoint ==
    /\ image_catalog = <<>>
    /\ mosaic_groups = <<>>
    /\ milp_pc = "load"
    /\ mdl = None
    /\ selected_groups_details = <<>>
    /\ model_vars = None
    /\ main_report = None
    /\ GreedyIdle
    /\ AreaIdle
    /\ IngestIdle

NextDisjoint == LoadDisjointGroup \/ SolveMilp

SpecDisjoint == InitDisjoint /\ [][NextDisjoint]_vars

\* An artefact whose mosaics are pairwise disjoint in tiles and whose
\* group_id values are in any order along the list: the list order is the
\* order of the file, which nothing ties to the ids.
MaxLabelledGroups == 3

GroupLabels == 1..MaxLabelledGroups

LoadLabelledGroup ==
    /\ milp_pc = "load"
    /\ Len(mosaic_groups) < MaxLabelledGroups
    /\ \E label \in GroupLabels \ GroupIds, coverage \in CoverageValues :
          LET j == Len(mosaic_groups) + 1
          IN  /\ mosaic_groups' =
                    Append(mosaic_groups,
                           [NewGroup(j, <<>>, coverage, 100) EXCEPT !.group_id = label])
              /\ image_catalog' = Append(image_catalog,
                                         [filename |-> OwnTile(j), cloud_coverage |-> 500])
    /\ UNCHANGED <<milp_pc, mdl, selected_groups_details, model_vars, main_report>>
    /\ UNCHANGED greedy_vars
    /\ UNCHANGED area_vars
    /\ UNCHANGED ingest_vars

NextLabelled == LoadLabelledGroup \/ SolveMilp

SpecLabelled == InitDisjoint /\ [][NextLabelled]_vars

----------------------------------------------------------------------------
(* Properties of C5                                                        *)

SelectedIds == {selected_groups_details[i].group_id : i \in DOMAIN selected_groups_details}

\* C1: in every returned selection each tile filename is in the images list
\* of at most one selected mosaic.
C1_TileExclusive ==
    milp_pc = "done" =>
        \A i, k \in DOMAIN selected_groups_details :
            i # k => Range(selected_groups_details[i].images)
                       \cap Range(selected_groups_details[k].images) = {}

\* C1 witness: two candidates share two tiles and the solver selected one of them.
C1_Witness ==
    /\ milp_pc = "done"
    /\ \E i, k \in DOMAIN mosaic_groups :
          /\ i # k
          /\ Cardinality(Range(mosaic_groups[i].images)
                           \cap Range(mosaic_groups[k].images)) >= 2
          /\ mosaic_groups[i].group_id \in SelectedIds

\* C2: no selected mosaic has a tile whose catalog cloud_coverage exceeds
\* 0.40, and the model fixes y = 0 for no mosaic whose N is exactly 0.40.
C2_CloudVeto ==
    milp_pc = "done" =>
        /\ \A i \in DOMAIN selected_groups_details :
              \A c \in DOMAIN image_catalog :
                  image_catalog[c].filename \in Range(selected_groups_details[i].images)
                      => image_catalog[c].cloud_coverage <= 4000
        /\ mdl # None =>
              \A i \in DOMAIN mosaic_groups :
                  MaxCloudCoverage(mosaic_groups[i]) = 4000
                      => mosaic_groups[i].group_id \notin mdl.exclude_high_cloud

\* C2 witness: a mosaic with N = 0.4001 and coverage 1.0 was a candidate and
\* is left out, while a mosaic with N = 0.40 is selected.
C2_Witness ==
    /\ milp_pc = "done"
    /\ \E i \in DOMAIN mosaic_groups :
          /\ MaxCloudCoverage(mosaic_groups[i]) = 4001
          /\ mosaic_groups[i].geometric_coverage = 100
          /\ mosaic_groups[i].group_id \notin SelectedIds
    /\ \E i \in DOMAIN mosaic_groups :
          /\ MaxCloudCoverage(mosaic_groups[i]) = 4000
          /\ mosaic_groups[i].group_id \in SelectedIds

\* C3: every returned selection has at most K_max = 6 mosaics.
C3_AtMostKmax ==
    milp_pc = "done" => Len(selected_groups_details) <= 6

\* An artefact in which a mosaic lists a tile that has no entry in the
\* catalogue, one mosaic group at a time.
LoadUncataloguedGroup ==
    /\ milp_pc = "load"
    /\ Len(mosaic_groups) < MaxGroups
    /\ \E coverage \in CoverageValues, quality \in QualityValues :
          LET j == Len(mosaic_groups) + 1
          IN  mosaic_groups' = Append(mosaic_groups, NewGroup(j, <<>>, coverage, quality))
    /\ UNCHANGED <<image_catalog, milp_pc, mdl, selected_groups_details, model_vars,
                   main_report>>
    /\ UNCHANGED greedy_vars
    /\ UNCHANGED area_vars
    /\ UNCHANGED ingest_vars

NextUncatalogued == LoadGroup \/ LoadUncataloguedGroup \/ SolveMilp

SpecUncatalogued == InitMilp /\ [][NextUncatalogued]_vars

Catalogued(group) ==
    \E p \in DOMAIN group.images : \E k \in DOMAIN image_catalog :
        image_catalog[k].filename = group.images[p]

\* C19: a mosaic none of whose tiles has a cloud_coverage in the catalogue
\* gets N_j = 1.0, is vetoed by the 0.40 threshold and is not selected.
C19_MissingCloudIsOne ==
    (milp_pc = "done" /\ mdl # None) =>
        \A i \in DOMAIN mosaic_groups :
            ~Catalogued(mosaic_groups[i]) =>
                /\ mosaic_groups[i].group_id \in mdl.exclude_high_cloud
                /\ mosaic_groups[i].group_id \notin SelectedIds

\* C14: the coefficient of every mosaic in the objective is A_j * Q_j
\* - 3.7 * N_j, less the penalty 0.4 of the variant with shared-image-ratio
\* intersections, and the cloud penalty reported for a selection is 3.7
\* times the sum of its N_j (0.37 for one mosaic with N = 0.10).
C14_Objective ==
    (milp_pc = "done" /\ mdl # None) =>
        /\ \A i \in DOMAIN mosaic_groups :
              mdl.objective[mosaic_groups[i].group_id]
                 = 10 * mosaic_groups[i].geometric_coverage * mosaic_groups[i].quality_factor
                   - 37 * MaxCloudCoverage(mosaic_groups[i])
                   - 40000
        /\ main_report.validation # None =>
              main_report.validation.objective.cloud_penalty
                 = 37 * SumOver(DOMAIN selected_groups_details,
                                [i \in DOMAIN selected_groups_details |->
                                    MaxCloudCoverage(selected_groups_details[i])])

\* C15: when the only candidate is one mosaic with coverage 0.80, quality 1
\* and N = 0.10, the returned selection is that mosaic.
C15_SingleCleanMosaicSelected ==
    (/\ milp_pc = "done"
     /\ Len(mosaic_groups) = 1
     /\ mosaic_groups[1].geometric_coverage = 80
     /\ mosaic_groups[1].quality_factor = 100
     /\ MaxCloudCoverage(mosaic_groups[1]) = 1000)
        => selected_groups_details = mosaic_groups

SelectedCoverage ==
    SumOver(DOMAIN selected_groups_details,
            [i \in DOMAIN selected_groups_details |->
                selected_groups_details[i].geometric_coverage])

CoSelectedPairs ==
    {q \in (DOMAIN selected_groups_details) \X (DOMAIN selected_groups_details) : q[1] < q[2]}

CoSelectedIntersection ==
    SumOver(CoSelectedPairs,
            [q \in CoSelectedPairs |->
                Intersection(selected_groups_details[q[1]], selected_groups_details[q[2]])])

\* C16: the overlap control of the model is the linearized coverage floor:
\* in every returned selection o_jk = 1 exactly when y_j = y_k = 1, and the
\* sum of A_j over the selected mosaics minus the sum of I_jk over the
\* co-selected pairs is at least 0.85; mosaics whose I_jk is under 0.80 can
\* be selected together.
C16_CoverageFloor ==
    (milp_pc = "done" /\ model_vars # None) =>
        /\ \A key \in DOMAIN model_vars.group_pairs :
              /\ model_vars.group_pairs[key] \in {0, 1}
              /\ model_vars.group_pairs[key] = 1
                    <=> (key[1] \in SelectedIds /\ key[2] \in SelectedIds)
        /\ IntersectionScale * SelectedCoverage - CoSelectedIntersection
              >= 85 * IntersectionScale

C16_Witness ==
    /\ milp_pc = "done"
    /\ model_vars # None
    /\ Len(selected_groups_details) = 2
    /\ \E key \in DOMAIN model_vars.group_pairs : model_vars.group_pairs[key] = 1
    /\ 100 * CoSelectedIntersection < 80 * IntersectionScale
    /\ SelectedCoverage = 180

\* C17: when no assignment satisfies the constraints, or the input has no
\* mosaic group, the returned selection is empty and comes with a logged
\* error, nothing is saved as selected and the validation is not run.
C17_InfeasibleEmpty ==
    (/\ milp_pc = "done"
     /\ (mosaic_groups = <<>> \/ FeasibleSet(mdl) = {}))
        => /\ selected_groups_details = <<>>
           /\ model_vars = None
           /\ main_report.saved = None
           /\ main_report.validation = None
           /\ main_report.error # ""

C17_Witness ==
    /\ milp_pc = "done"
    /\ mosaic_groups # <<>>
    /\ FeasibleSet(mdl) = {}
    /\ \E i \in DOMAIN mosaic_groups : MaxCloudCoverage(mosaic_groups[i]) <= 4000
    /\ main_report.error = "Nenhuma solucao viavel encontrada pelo CPLEX"

----------------------------------------------------------------------------
(* C3 - heuristica_gulosa (src/code/2-compatibility-greedy.py)             *)
(* Units: geographic_coverage and estimated coverage in 1/1000,            *)
(* cloud_coverage and valid_pixels_percentage in 1/100, quality factors    *)
(* in 1/200000, instants in half days, footprints as cell intervals.       *)

\* Input bound of the composer runs: accepted tiles.
MaxTiles == 3

\* greedy_utils/configuration.py
MOSAIC_TIME_WINDOW_DAYS == 5

CENTRAL_IMAGE_EFFECTIVE_COVERAGE_THRESHOLD == 30

OVERLAP_QUALITY_WEIGHT == 3

HalfDaysPerDay == 1 + 1

\* Values the accepted tiles draw their fields from.
DateValues == {0, 10, 11, 20}

TileCloudValues == {0, 30}

ValidPixelValues == {100}

\* The AOI and the two granules a bundle can be of: the raster bounds and the
\* relative orbit of the filename.
AoiCells == 0..9

Granules ==
    {[bounds |-> [left |-> 0, right |-> 9], orbit |-> [n |-> 38]],
     [bounds |-> [left |-> 9, right |-> 11], orbit |-> [n |-> 81]]}

BoundsCells(bounds) == bounds.left .. (bounds.right - 1)

\* The rasters are in a geographic CRS or in a UTM zone.
RasterCrsValues == {"EPSG:4326", "EPSG:32724"}

\* Area of one cell in the units of the CRS: squared degrees, or squared
\* kilometres of a cell of one degree.
RasterAreaUnit(crs) == IF crs = "EPSG:4326" THEN 1 ELSE 111 * 111

\* greedy_utils/image_processing.py lines 54-59: the intersection is
\* measured in the raster CRS, the AOI area in WGS84.
GeographicCoverage(bounds, crs) ==
    Min2(1000, (Cardinality(BoundsCells(bounds) \cap AoiCells) * RasterAreaUnit(crs) * 1000)
                    \div Cardinality(AoiCells))

COMPLEMENT_IMAGE_MIN_GEOGRAPHIC_COVERAGE_THRESHOLD == 20

MAX_CLOUD_COVERAGE_THRESHOLD == 40

\* greedy_utils/image_processing.py lines 131-161; geo_coverage in 1/1000,
\* valid_pix_perc and cloud_perc in 1/100, eff_coverage in 1/100000.  The
\* pair (is_suitable, reason); the reason without the formatted numbers.
check_image_suitability_cloud_at_threshold(geo_coverage, valid_pix_perc, eff_coverage, cloud_perc) ==
    IF valid_pix_perc <= 0
    THEN [is_suitable |-> FALSE, reason |-> "IMAGEM SEM PIXELS VALIDOS NA AOI"]
    ELSE IF geo_coverage < COMPLEMENT_IMAGE_MIN_GEOGRAPHIC_COVERAGE_THRESHOLD
    THEN [is_suitable |-> FALSE, reason |-> "IMAGEM COM COBERTURA GEOGRAFICA INSUFICIENTE"]
    ELSE IF 2 * eff_coverage < COMPLEMENT_IMAGE_MIN_GEOGRAPHIC_COVERAGE_THRESHOLD * 100
    THEN [is_suitable |-> FALSE, reason |-> "IMAGEM COM COBERTURA EFETIVA INSUFICIENTE"]
    ELSE IF cloud_perc >= MAX_CLOUD_COVERAGE_THRESHOLD
    THEN [is_suitable |-> FALSE, reason |-> "IMAGEM REJEITADA: Muitas nuvens"]
    ELSE [is_suitable |-> TRUE, reason |-> "OK"]

check_image_suitability(geo_coverage, valid_pix_perc, eff_coverage, cloud_perc) ==
    IF valid_pix_perc <= 0
    THEN [is_suitable |-> FALSE, reason |-> "IMAGEM SEM PIXELS VALIDOS NA AOI"]
    ELSE IF geo_coverage < COMPLEMENT_IMAGE_MIN_GEOGRAPHIC_COVERAGE_THRESHOLD
    THEN [is_suitable |-> FALSE, reason |-> "IMAGEM COM COBERTURA GEOGRAFICA INSUFICIENTE"]
    ELSE IF 2 * eff_coverage < COMPLEMENT_IMAGE_MIN_GEOGRAPHIC_COVERAGE_THRESHOLD * 100
    THEN [is_suitable |-> FALSE, reason |-> "IMAGEM COM COBERTURA EFETIVA INSUFICIENTE"]
    ELSE IF cloud_perc > MAX_CLOUD_COVERAGE_THRESHOLD
    THEN [is_suitable |-> FALSE, reason |-> "IMAGEM REJEITADA: Muitas nuvens"]
    ELSE [is_suitable |-> TRUE, reason |-> "OK"]

\* greedy_utils/image_processing.py lines 163-174; effective coverage is
\* geographic_coverage * valid_pixels_percentage (line 68), in 1/100000.
classify_image(effective_coverage) ==
    IF effective_coverage >= CENTRAL_IMAGE_EFFECTIVE_COVERAGE_THRESHOLD * 1000
    THEN "central" ELSE "complement"

\* lines 76-90: a str date is parsed with datetime.fromisoformat, a
\* datetime is taken as it is, anything else makes the pair incompatible.
ParseDate(date) ==
    IF date = None THEN None ELSE [repr |-> "datetime", t |-> date.t]

\* timedelta.days of (a - b): whole days, rounded towards minus infinity.
TimedeltaDays(a, b) == (a.t - b.t) \div HalfDaysPerDay

\* (1 - cloud_coverage) * valid_pixels_percentage, in 1/10000.
QualityOf(img) == (100 - img.cloud_coverage) * img.valid_pixels_percentage

\* lines 38-253
calculate_compatibility_mosaics(base_img, other_img, max_days) ==
    LET base_date == ParseDate(base_img.date)
        other_date == ParseDate(other_img.date)
    IN
    IF base_date = None \/ other_date = None THEN None
    ELSE IF Abs(TimedeltaDays(base_date, other_date)) > max_days THEN None
    ELSE IF base_img.bounds = None \/ other_img.bounds = None THEN None
    ELSE IF base_img.crs = "" \/ other_img.crs = "" THEN None
    ELSE
    LET days_diff == Abs(TimedeltaDays(base_date, other_date))
        orbit_match == base_img.orbit # None /\ base_img.orbit = other_img.orbit
        orbit_bonus == IF orbit_match THEN 10000000 ELSE 0
        overlap_area ==
            Cardinality(BoundsCells(base_img.bounds) \cap BoundsCells(other_img.bounds))
        cloud_overlap_base ==
            IF overlap_area > 0 /\ base_img.cloud_mask_exists
            THEN base_img.cloud_probe ELSE 100
        cloud_overlap_other ==
            IF overlap_area > 0 /\ other_img.cloud_mask_exists
            THEN other_img.cloud_probe ELSE 100
        better_img_in_overlap ==
            IF overlap_area > 0
            THEN (IF cloud_overlap_base <= cloud_overlap_other THEN "base" ELSE "other")
            ELSE "None"
        quality_base == QualityOf(base_img)
        quality_other == QualityOf(other_img)
        \* twice the overlap quality, in 1/10000
        quality_factor_overlap2 ==
            IF better_img_in_overlap = "base"
            THEN 2 * (100 - cloud_overlap_base) * base_img.valid_pixels_percentage
            ELSE IF better_img_in_overlap = "other"
            THEN 2 * (100 - cloud_overlap_other) * other_img.valid_pixels_percentage
            ELSE quality_base + quality_other
        refined_quality_factor ==
            (10 - OVERLAP_QUALITY_WEIGHT) * (quality_base + quality_other)
            + OVERLAP_QUALITY_WEIGHT * quality_factor_overlap2
        uncovered_area_before == Max2(0, 1000 - base_img.geographic_coverage)
        overlap_factor_heuristic == IF other_img.class = "central" THEN 4 ELSE 2
        contribution_factor == 10 - overlap_factor_heuristic
        added_geo_coverage_est ==
            Min2(uncovered_area_before,
                 (other_img.geographic_coverage * contribution_factor) \div 10)
        estimated_new_geo_coverage ==
            Min2(1000, base_img.geographic_coverage + added_geo_coverage_est)
    IN  [image                        |-> other_img,
         days_diff                    |-> days_diff,
         estimated_coverage_after_add |-> estimated_new_geo_coverage,
         refined_quality_factor       |-> refined_quality_factor,
         effectiveness_score          |-> added_geo_coverage_est * refined_quality_factor
                                            + orbit_bonus,
         orbit_match                  |-> orbit_match,
         overlap_details              |-> [overlap_area          |-> overlap_area,
                                           cloud_overlap_base    |-> cloud_overlap_base,
                                           cloud_overlap_other   |-> cloud_overlap_other,
                                           better_img_in_overlap |-> better_img_in_overlap]]

\* lines 315-323 and 409-417
NewMosaicGroup(base_img) ==
    [base_image           |-> base_img,
     complementary_images |-> <<>>,
     estimated_coverage   |-> base_img.geographic_coverage,
     avg_quality_factor   |-> 20 * QualityOf(base_img),
     start_date           |-> base_img.date,
     end_date             |-> base_img.date,
     overlap_details      |-> <<>>,
     raised               |-> FALSE]

\* lines 350-363 and 431-444: the candidate's date, parsed to a datetime, is
\* compared with start_date and end_date as they are stored; comparing a
\* datetime with a str raises TypeError.
UpdateDateRange(group, date) ==
    LET candidate_date == ParseDate(date)
    IN
    IF candidate_date = None THEN group
    ELSE IF group.start_date # None /\ group.start_date.repr = "str"
    THEN [group EXCEPT !.raised = TRUE]
    ELSE
    LET g1 == IF group.start_date # None /\ candidate_date.t < group.start_date.t
              THEN [group EXCEPT !.start_date = candidate_date] ELSE group
    IN
    IF g1.end_date # None /\ g1.end_date.repr = "str"
    THEN [g1 EXCEPT !.raised = TRUE]
    ELSE IF g1.end_date # None /\ candidate_date.t > g1.end_date.t
    THEN [g1 EXCEPT !.end_date = candidate_date] ELSE g1

\* A scan that also passes over a candidate that adds nothing.
IncompatibleOrUseless(compatibility) ==
    compatibility = None \/ compatibility.effectiveness_score = 0

\* lines 341-342 and 422-423: if not compatibility: continue
Incompatible(compatibility) ==
    compatibility = None

\* lines 339-372 and 420-453: the scan of the candidates of one mosaic.
RECURSIVE ExtendMosaic(_, _, _, _)
ExtendMosaic(group, current_base, candidates, max_days) ==
    IF candidates = <<>> \/ group.raised THEN group
    ELSE
    LET candidate == Head(candidates)
        compatibility == calculate_compatibility_mosaics(current_base, candidate, max_days)
    IN
    IF Incompatible(compatibility)
    THEN ExtendMosaic(group, current_base, Tail(candidates), max_days)
    ELSE
    LET added == [group EXCEPT
                    !.complementary_images = Append(@, compatibility.image),
                    !.estimated_coverage = compatibility.estimated_coverage_after_add,
                    !.avg_quality_factor = compatibility.refined_quality_factor]
        dated == UpdateDateRange(added, candidate.date)
    IN
    IF dated.raised THEN dated
    ELSE ExtendMosaic(
            [dated EXCEPT !.overlap_details = Append(@, compatibility.overlap_details)],
            [current_base EXCEPT
                !.geographic_coverage = compatibility.estimated_coverage_after_add],
            Tail(candidates), max_days)

\* key of the sorts of lines 329-333 and 401-405
MeritKey(img) == img.geographic_coverage * (100 - img.cloud_coverage)

SortByMerit(imgs) ==
    LET order == SortedDescending([i \in DOMAIN imgs |-> MeritKey(imgs[i])])
    IN  [p \in DOMAIN imgs |-> imgs[order[p]]]

\* lines 329-333: every accepted tile but the seed, also when the scan
\* drops the filter on the seed's filename.
CandidatesOfAll(all_accepted, central_key) == SortByMerit(all_accepted)

CandidatesOf(all_accepted, central_key) ==
    SortByMerit(SelectSeq(all_accepted, LAMBDA img : img.filename # central_key))

\* lines 307-377: one mosaic per central seed, kept when it has complements.
RECURSIVE CentralStage(_, _, _, _, _)
CentralStage(centrals, all_accepted, processed_centrals, potential_mosaics, max_days) ==
    IF centrals = <<>> THEN [raised |-> FALSE, mosaics |-> potential_mosaics]
    ELSE
    LET central_img == Head(centrals)
        central_key == central_img.filename
    IN
    IF central_key \in processed_centrals
    THEN CentralStage(Tail(centrals), all_accepted, processed_centrals,
                      potential_mosaics, max_days)
    ELSE
    LET mosaic_group == ExtendMosaic(NewMosaicGroup(central_img), central_img,
                                     CandidatesOf(all_accepted, central_key), max_days)
    IN
    IF mosaic_group.raised THEN [raised |-> TRUE, mosaics |-> potential_mosaics]
    ELSE IF mosaic_group.complementary_images # <<>>
    THEN CentralStage(Tail(centrals), all_accepted, processed_centrals \cup {central_key},
                      Append(potential_mosaics, mosaic_group), max_days)
    ELSE CentralStage(Tail(centrals), all_accepted, processed_centrals,
                      potential_mosaics, max_days)

\* lines 384-394: calendar day of a complement, the key of its bucket.
DateKey(img) == ParseDate(img.date).t \div HalfDaysPerDay

Dated(complements) == SelectSeq(complements, LAMBDA img : img.date # None)

\* the buckets in the order their keys were first inserted
RECURSIVE BucketKeys(_, _)
BucketKeys(imgs, seen) ==
    IF imgs = <<>> THEN <<>>
    ELSE IF DateKey(Head(imgs)) \in seen THEN BucketKeys(Tail(imgs), seen)
    ELSE <<DateKey(Head(imgs))>> \o BucketKeys(Tail(imgs), seen \cup {DateKey(Head(imgs))})

\* lines 396-457: one mosaic per bucket of at least two complements.
RECURSIVE ComplementStage(_, _, _, _)
ComplementStage(keys, complements, potential_mosaics, max_days) ==
    IF keys = <<>> THEN [raised |-> FALSE, mosaics |-> potential_mosaics]
    ELSE
    LET images_in_group == SelectSeq(Dated(complements), LAMBDA img : DateKey(img) = Head(keys))
    IN
    IF Len(images_in_group) < 2
    THEN ComplementStage(Tail(keys), complements, potential_mosaics, max_days)
    ELSE
    LET sorted_comps == SortByMerit(images_in_group)
        base_img == sorted_comps[1]
        mosaic_group == ExtendMosaic(NewMosaicGroup(base_img), base_img,
                                     Tail(sorted_comps), max_days)
    IN
    IF mosaic_group.raised THEN [raised |-> TRUE, mosaics |-> potential_mosaics]
    ELSE IF mosaic_group.complementary_images # <<>>
    THEN ComplementStage(Tail(keys), complements,
                         Append(potential_mosaics, mosaic_group), max_days)
    ELSE ComplementStage(Tail(keys), complements, potential_mosaics, max_days)

\* line 460: sort by (estimated_coverage, avg_quality_factor), descending.
SortMosaics(mosaics) ==
    LET order == SortedDescending(
                    [i \in DOMAIN mosaics |->
                        mosaics[i].estimated_coverage * 1000000 + mosaics[i].avg_quality_factor])
    IN  [p \in DOMAIN mosaics |-> mosaics[order[p]]]

\* lines 255-461
heuristica_gulosa(metadata, max_days_diff) ==
    LET centrals == metadata.central
        complements == metadata.complement
        all_accepted == centrals \o complements
    IN
    IF all_accepted = <<>> THEN [raised |-> FALSE, mosaics |-> <<>>]
    ELSE
    LET stage1 == CentralStage(centrals, all_accepted, {}, <<>>, max_days_diff)
    IN
    IF stage1.raised THEN stage1
    ELSE
    LET stage2 == ComplementStage(BucketKeys(Dated(complements), {}), complements,
                                  stage1.mosaics, max_days_diff)
    IN
    IF stage2.raised THEN stage2
    ELSE [raised |-> FALSE, mosaics |-> SortMosaics(stage2.mosaics)]

\* greedy_utils/processing_utils.py lines 13-114 and
\* greedy_utils/metadata_utils.py lines 80-138: the record of an accepted
\* bundle.  The zip name is the filename; no cloud mask path is kept.
TileMetadata(n, granule, t, cloud, valid) ==
    [filename                |-> <<"zip", ToString(n)>>,
     class                   |-> classify_image(GeographicCoverage(granule.bounds, raster_crs) * valid),
     date                    |-> [repr |-> date_repr, t |-> t],
     orbit                   |-> granule.orbit,
     geographic_coverage     |-> GeographicCoverage(granule.bounds, raster_crs),
     valid_pixels_percentage |-> valid,
     cloud_coverage          |-> cloud,
     bounds                  |-> granule.bounds,
     crs                     |-> raster_crs,
     cloud_mask_exists       |-> FALSE,
     cloud_probe             |-> 100]

\* run_processing_pipeline lines 491-514, for a bundle that is accepted
LoadTile ==
    /\ greedy_pc = "loading"
    /\ Len(image_metadata.central) + Len(image_metadata.complement) < MaxTiles
    /\ \E granule \in Granules, t \in DateValues,
          cloud \in TileCloudValues, valid \in ValidPixelValues :
          LET n == Len(image_metadata.central) + Len(image_metadata.complement) + 1
              metadata == TileMetadata(n, granule, t, cloud, valid)
          IN  /\ check_image_suitability(metadata.geographic_coverage, valid,
                                          metadata.geographic_coverage * valid,
                                          cloud).is_suitable
              /\ image_metadata' =
                  [image_metadata EXCEPT ![metadata.class] = Append(@, metadata)]
    /\ UNCHANGED <<date_repr, raster_crs, greedy_pc, good_mosaic_combinations,
                   optimization_params, downstream>>
    /\ UNCHANGED milp_vars
    /\ UNCHANGED area_vars
    /\ UNCHANGED ingest_vars

\* DateTimeEncoder (lines 29-36): a datetime is written as its ISO string.
EncodeDate(date) == IF date = None THEN None ELSE [repr |-> "str", t |-> date.t]

\* lines 550-562
CatalogEntry(img) ==
    [id                      |-> img.filename,
     class                   |-> img.class,
     date                    |-> EncodeDate(img.date),
     orbit                   |-> img.orbit,
     geographic_coverage     |-> img.geographic_coverage,
     valid_pixels_percentage |-> img.valid_pixels_percentage,
     cloud_coverage          |-> img.cloud_coverage,
     quality_factor          |-> QualityOf(img)]

\* lines 565-576
MosaicEntry(idx, mosaic) ==
    [id                      |-> <<"mosaic", ToString(idx)>>,
     base_image_id           |-> mosaic.base_image.filename,
     complementary_image_ids |->
        [k \in DOMAIN mosaic.complementary_images |-> mosaic.complementary_images[k].filename],
     estimated_coverage      |-> mosaic.estimated_coverage,
     quality_factor          |-> mosaic.avg_quality_factor,
     start_date              |-> EncodeDate(mosaic.start_date),
     end_date                |-> EncodeDate(mosaic.end_date),
     overlap_details         |-> mosaic.overlap_details]

\* lines 547-576
BuildOptimizationParams(metadata, combinations) ==
    [image_catalog |->
        [k \in 1..(Len(metadata.central) + Len(metadata.complement)) |->
            CatalogEntry((metadata.central \o metadata.complement)[k])],
     mosaic_groups |->
        [idx \in DOMAIN combinations |-> MosaicEntry(idx, combinations[idx])]]

\* run_processing_pipeline lines 537-585: the composer and the artefact.
\* An exception of the composer leaves the run without an artefact.
RunGreedy ==
    /\ greedy_pc = "loading"
    /\ \E result \in {heuristica_gulosa(image_metadata, MOSAIC_TIME_WINDOW_DAYS)} :
          IF result.raised
          THEN /\ greedy_pc' = "raised"
               /\ UNCHANGED <<good_mosaic_combinations, optimization_params>>
          ELSE /\ greedy_pc' = "done"
               /\ good_mosaic_combinations' = result.mosaics
               /\ optimization_params' =
                      BuildOptimizationParams(image_metadata, result.mosaics)
    /\ UNCHANGED <<date_repr, raster_crs, image_metadata, downstream>>
    /\ UNCHANGED milp_vars
    /\ UNCHANGED area_vars
    /\ UNCHANGED ingest_vars

\* The tile dates reach the composer as the ISO strings that
\* save_classification_metadata writes, or as datetime objects, which
\* lines 77-85, 353 and 388 take as they are.
InitGreedy ==
    /\ MilpIdle
    /\ AreaIdle
    /\ IngestIdle
    /\ date_repr \in {"str", "datetime"}
    /\ raster_crs \in RasterCrsValues
    /\ image_metadata = [central |-> <<>>, complement |-> <<>>]
    /\ greedy_pc = "loading"
    /\ good_mosaic_combinations = <<>>
    /\ optimization_params = None
    /\ downstream = None

NextGreedy == LoadTile \/ RunGreedy

SpecGreedy == InitGreedy /\ [][NextGreedy]_vars

MosaicTiles(mosaic) == <<mosaic.base_image>> \o mosaic.complementary_images

TileInstants(mosaic) == {MosaicTiles(mosaic)[k].date.t : k \in DOMAIN MosaicTiles(mosaic)}

WindowHalfDays == MOSAIC_TIME_WINDOW_DAYS * HalfDaysPerDay

MosaicImages(entry) == <<entry.base_image_id>> \o entry.complementary_image_ids

AreaConsumes(artifact) ==
    IF artifact.mosaic_groups = <<>> THEN "no_mosaic_groups"
    ELSE IF \E k \in DOMAIN artifact.image_catalog :
                "filename" \notin DOMAIN artifact.image_catalog[k]
    THEN "KeyError"
    ELSE "computed"

\* 3-CPLEX.py lines 81-107: no mosaic group gives the empty selection;
\* otherwise the loop reads group['group_id'], group['images'] and, for a
\* group with images, image['filename'] of every catalogue entry.
MilpConsumes(artifact) ==
    IF artifact.mosaic_groups = <<>> THEN "empty_selection"
    ELSE IF \E i \in DOMAIN artifact.mosaic_groups :
                \/ "group_id" \notin DOMAIN artifact.mosaic_groups[i]
                \/ "images" \notin DOMAIN artifact.mosaic_groups[i]
    THEN "KeyError"
    ELSE IF /\ \E i \in DOMAIN artifact.mosaic_groups :
                  artifact.mosaic_groups[i].images # <<>>
            /\ \E k \in DOMAIN artifact.image_catalog :
                  "filename" \notin DOMAIN artifact.image_catalog[k]
    THEN "KeyError"
    ELSE "solved"

\* The artefact of a completed run handed to C4 and to C5.
RunDownstream ==
    /\ greedy_pc = "done"
    /\ downstream = None
    /\ downstream' = [c4 |-> AreaConsumes(optimization_params),
                      c5 |-> MilpConsumes(optimization_params)]
    /\ UNCHANGED <<date_repr, raster_crs, image_metadata, greedy_pc,
                   good_mosaic_combinations, optimization_params>>
    /\ UNCHANGED milp_vars
    /\ UNCHANGED area_vars
    /\ UNCHANGED ingest_vars

NextPipeline == LoadTile \/ RunGreedy \/ RunDownstream

SpecPipeline == InitGreedy /\ [][NextPipeline]_vars

\* line 285: the accepted tiles, centrals first.
AllAccepted == image_metadata.central \o image_metadata.complement

\* The central seeds to which the scan of lines 339-372 adds a tile: the
\* first addition is judged against the seed itself.
SeedsWithAddition ==
    {k \in DOMAIN image_metadata.central :
        \E j \in DOMAIN AllAccepted :
            /\ AllAccepted[j].filename # image_metadata.central[k].filename
            /\ calculate_compatibility_mosaics(image_metadata.central[k], AllAccepted[j],
                                               MOSAIC_TIME_WINDOW_DAYS) # None}

\* C12: once the composer has run, a seeded mosaic is in its list exactly
\* when a tile was added to it: every listed mosaic has a complement, every
\* central seed that got a tile is the base of a listed mosaic, and a single
\* accepted central tile gives the empty list and an empty selection of C5.
C12_KeptIffAdded ==
    greedy_pc \in {"done", "raised"} =>
        /\ \A i \in DOMAIN good_mosaic_combinations :
              good_mosaic_combinations[i].complementary_images # <<>>
        /\ \A k \in SeedsWithAddition :
              \E i \in DOMAIN good_mosaic_combinations :
                 good_mosaic_combinations[i].base_image.filename
                    = image_metadata.central[k].filename
        /\ (Len(image_metadata.central) = 1 /\ image_metadata.complement = <<>>) =>
              /\ good_mosaic_combinations = <<>>
              /\ downstream # None => downstream.c5 = "empty_selection"

\* C13: the artefact of a completed run has 'filename' in every catalogue
\* entry, 'group_id' and an 'images' list with the base and all complements
\* in every mosaic group, and neither C4 nor C5 raises when reading it.
C13_ArtifactConsumable ==
    greedy_pc = "done" =>
        /\ \A k \in DOMAIN optimization_params.image_catalog :
              "filename" \in DOMAIN optimization_params.image_catalog[k]
        /\ \A i \in DOMAIN optimization_params.mosaic_groups :
              /\ "group_id" \in DOMAIN optimization_params.mosaic_groups[i]
              /\ "images" \in DOMAIN optimization_params.mosaic_groups[i]
              /\ Range(MosaicImages(optimization_params.mosaic_groups[i]))
                    \subseteq Range(optimization_params.mosaic_groups[i].images)
        /\ downstream # None =>
              /\ downstream.c4 # "KeyError"
              /\ downstream.c5 # "KeyError"

----------------------------------------------------------------------------
(* C2 - run_processing_pipeline, lines 463-522 of                          *)
(* src/code/2-compatibility-greedy.py, and process_single_zip_file         *)
(* (src/code/greedy_utils/processing_utils.py).  Units as in C3;           *)
(* effective_coverage in 1/100000.                                         *)

\* Input bound of the ingestion runs: bundles under ZIP_SOURCE_DIR.
MaxBundles == 2

\* What can go wrong with one bundle, by the place where it surfaces:
\* the mkdir of line 19, safe_extract, a pattern without a file, the
\* rasterio.open of lines 63-70, a raster without CRS (to_crs(None) at
\* line 77), and the mkdir of the class directory under METADATA_DIR
\* (2-compatibility-greedy.py line 507).
BundleFaults ==
    {"none", "temp_dir", "extract", "missing_file", "raster_open", "no_crs",
     "metadata_dir"}

\* The granules of the composer runs and one whose raster lies outside the AOI.
IngestGranules ==
    Granules \cup {[bounds |-> [left |-> 12, right |-> 14], orbit |-> [n |-> 124]]}

IngestValidPixelValues == {0, 5, 100}

\* The cloud-probability mask of a bundle: whether it can be read and
\* clipped to the AOI, how many cells of it fall in the AOI and how many of
\* them are cloudy.
CloudMasks ==
    {[readable |-> TRUE,  size |-> 100, cloudy |-> 0],
     [readable |-> TRUE,  size |-> 100, cloudy |-> 40],
     [readable |-> TRUE,  size |-> 100, cloudy |-> 41],
     [readable |-> TRUE,  size |-> 0,   cloudy |-> 0],
     [readable |-> FALSE, size |-> 100, cloudy |-> 0]}

\* greedy_utils/image_processing.py lines 81-129, in 1/100.
calculate_cloud_coverage(mask) ==
    IF mask.readable /\ mask.size > 0
    THEN (mask.cloudy * 100) \div mask.size
    ELSE 100

\* get_date_from_xml: the bundles in sorted order are ten half days apart.
BundleDate(n) == 10 * (n - 1)

BundleName(n) == <<"zip", ToString(n)>>

\* processing_utils.py lines 21-26
ResultDefault(n) ==
    [status                  |-> "error",
     reason                  |-> "Erro de processamento desconhecido",
     filename                |-> BundleName(n),
     date                    |-> None,
     orbit                   |-> None,
     geographic_coverage     |-> 0,
     valid_pixels_percentage |-> 0,
     effective_coverage      |-> 0,
     cloud_coverage          |-> 100,
     bounds                  |-> None,
     crs                     |-> "",
     class                   |-> ""]

\* processing_utils.py lines 32-114: the dictionary returned for a bundle
\* whose temporary directory could be created.
process_single_zip_file(n, bundle) ==
    LET default == ResultDefault(n)
        dated == [default EXCEPT !.date = [repr |-> "datetime", t |-> BundleDate(n)],
                                 !.orbit = bundle.granule.orbit]
        geo == GeographicCoverage(bundle.granule.bounds, raster_crs)
        eff == geo * bundle.valid
        cloud == calculate_cloud_coverage(bundle.mask)
        measured == [dated EXCEPT !.geographic_coverage = geo,
                                  !.valid_pixels_percentage = bundle.valid,
                                  !.effective_coverage = eff,
                                  !.bounds = bundle.granule.bounds,
                                  !.crs = raster_crs,
                                  !.cloud_coverage = cloud]
        suitability == check_image_suitability(geo, bundle.valid, eff, cloud)
    IN  CASE bundle.fault = "extract" ->
                [default EXCEPT !.reason = "Falha ao extrair arquivos necessarios do ZIP"]
          [] bundle.fault = "missing_file" ->
                [default EXCEPT !.reason = "Arquivo necessario ausente"]
          [] bundle.fault = "raster_open" ->
                [dated EXCEPT !.reason = "Falha ao transformar AOI para CRS da imagem"]
          [] bundle.fault = "no_crs" ->
                [dated EXCEPT !.bounds = bundle.granule.bounds,
                              !.reason = "Erro de processamento"]
          [] OTHER ->
                IF ~suitability.is_suitable
                THEN [measured EXCEPT !.status = "rejected",
                                      !.reason = suitability.reason]
                ELSE [measured EXCEPT !.status = "accepted",
                                      !.class = classify_image(eff)]

\* processing_utils.py lines 18-19: the directory of the bundle exists once
\* mkdir has returned; no line of the function or of the loop removes it.
TempDirsAfter(n, bundle) ==
    IF bundle.fault = "temp_dir" THEN temp_dirs ELSE temp_dirs \cup {BundleName(n)}

Increment(counters, key) == [counters EXCEPT ![key] = @ + 1]

\* 2-compatibility-greedy.py lines 492-522: the counters after the loop body
\* for one bundle.  raised: an exception left process_single_zip_file;
\* save_failed: the mkdir of line 507 raised, after lines 500-502.
StatsAfter(counters, result, raised, save_failed) ==
    IF raised THEN Increment(counters, "error")
    ELSE IF result.status = "accepted"
    THEN LET counted == Increment(Increment(counters, "accepted"), result.class)
         IN  IF save_failed THEN Increment(counted, "error") ELSE counted
    ELSE IF result.status = "rejected" THEN Increment(counters, "rejected")
    ELSE Increment(counters, "error")

\* 2-compatibility-greedy.py lines 491-522: the loop body for the next
\* bundle of zip_files.
ProcessZip ==
    /\ ingest_pc = "loop"
    /\ zip_index < MaxBundles
    /\ \E fault \in BundleFaults, granule \in IngestGranules,
          valid \in IngestValidPixelValues, mask \in CloudMasks :
          LET n == zip_index + 1
              bundle == [fault |-> fault, granule |-> granule, valid |-> valid,
                         mask |-> mask]
              raised == fault = "temp_dir"
              result == process_single_zip_file(n, bundle)
              accepted == ~raised /\ result.status = "accepted"
              save_failed == accepted /\ fault = "metadata_dir"
          IN  /\ zip_index' = n
              /\ temp_dirs' = TempDirsAfter(n, bundle)
              /\ all_processed_metadata' =
                    IF raised THEN all_processed_metadata
                    ELSE Append(all_processed_metadata, result)
              /\ stats' = StatsAfter(stats, result, raised, save_failed)
              /\ image_metadata' =
                    IF accepted /\ ~save_failed
                    THEN [image_metadata EXCEPT ![result.class] =
                            Append(@, TileMetadata(n, granule, BundleDate(n),
                                                   result.cloud_coverage, valid))]
                    ELSE image_metadata
    /\ UNCHANGED <<ingest_pc, date_repr, raster_crs, greedy_pc,
                   good_mosaic_combinations, optimization_params, downstream>>
    /\ UNCHANGED milp_vars
    /\ UNCHANGED area_vars

\* 2-compatibility-greedy.py lines 469-484; the dates of the saved tiles are
\* the ISO strings of save_classification_metadata.
InitIngest ==
    /\ MilpIdle
    /\ AreaIdle
    /\ date_repr = "str"
    /\ raster_crs \in RasterCrsValues
    /\ image_metadata = [central |-> <<>>, complement |-> <<>>]
    /\ greedy_pc = "idle"
    /\ good_mosaic_combinations = <<>>
    /\ optimization_params = None
    /\ downstream = None
    /\ zip_index = 0
    /\ all_processed_metadata = <<>>
    /\ stats = [accepted |-> 0, rejected |-> 0, error |-> 0,
                central |-> 0, complement |-> 0]
    /\ temp_dirs = {}
    /\ ingest_pc = "loop"

NextIngest == ProcessZip

SpecIngest == InitIngest /\ [][NextIngest]_vars

\* C11: a bundle whose metrics were computed is rejected exactly when
\* valid_pixels_percentage <= 1e-6, or geographic_coverage < 0.02, or
\* effective_coverage < 0.01, or cloud_coverage > 0.40 (so cloud_coverage
\* 0.40 with the other checks passed is accepted), and a rejection has
\* status 'rejected' and the reason of the first of these checks that fails.
MetricsComputed(result) == result.crs # ""

FirstFailingReason(result) ==
    IF result.valid_pixels_percentage = 0
    THEN "IMAGEM SEM PIXELS VALIDOS NA AOI"
    ELSE IF result.geographic_coverage < 20
    THEN "IMAGEM COM COBERTURA GEOGRAFICA INSUFICIENTE"
    ELSE IF result.effective_coverage < 1000
    THEN "IMAGEM COM COBERTURA EFETIVA INSUFICIENTE"
    ELSE IF result.cloud_coverage > 40
    THEN "IMAGEM REJEITADA: Muitas nuvens"
    ELSE "OK"

C18_EveryBundleCountedOnce ==
    ingest_pc = "loop" =>
        /\ stats.accepted + stats.rejected + stats.error = zip_index
        /\ Len(all_processed_metadata) <= zip_index

\* C20: once the processing of a bundle has ended, whatever its outcome,
\* the temporary extraction directory of that bundle does not exist.
C20_TempDirRemoved ==
    ingest_pc = "loop" =>
        \A n \in 1..zip_index : BundleName(n) \notin temp_dirs

----------------------------------------------------------------------------
(* C4 - calculate_coverage_twotwo (src/code/2.2-calc-area-2a2.py)          *)
(* Footprints are sets of unit cells of the AOI-CRS; an area is a number   *)
(* of cells; cloud_coverage is in 1/100; a ratio is a pair num/den.        *)

\* Input bound of the area runs: images of the mosaic.
MaxMosaicImages == 5

\* get_aoi_geometry: the AOI polygon
aoi_geometry == 0..39

\* The bundles under DOWNLOAD_PATH: the footprint find_and_get_image_geometry
\* returns for a name, None when the bundle or its TCI raster is not found.
FoundGeometry ==
    [a |-> [left |-> 0, right |-> 32],
     b |-> [left |-> 0, right |-> 32],
     c |-> [left |-> 2, right |-> 34],
     d |-> [left |-> 4, right |-> 36],
     e |-> [left |-> 6, right |-> 38],
     f |-> [left |-> 1, right |-> 33],
     g |-> [left |-> 2, right |-> 12],
     h |-> None,
     k |-> [left |-> 44, right |-> 50],
     n |-> [left |-> 30, right |-> 40]]

\* params['image_catalog']: filename -> cloud_coverage
CatalogCloud ==
    [a |-> 10, b |-> 30, c |-> 20, d |-> 10, e |-> 30, f |-> 5, h |-> 10, k |-> 30,
     n |-> 10]

ImageNames == DOMAIN FoundGeometry

\* src.crs of the TCI raster of a bundle, "" when the raster carries none.
TciCrs == [img_name \in ImageNames |-> IF img_name = "n" THEN "" ELSE "EPSG:32724"]

\* line 127: src.crs.to_string() if src.crs else "EPSG:32724"
SourceCrs(img_name) ==
    IF TciCrs[img_name] # "" THEN TciCrs[img_name] ELSE "EPSG:32724"

\* lines 94-169: the box of the raster bounds, read in source_crs.
find_and_get_image_geometry(img_name) ==
    IF FoundGeometry[img_name] = None \/ SourceCrs(img_name) = "" THEN None
    ELSE [cells |-> BoundsCells(FoundGeometry[img_name])]

\* lines 341-342: img_meta.get("cloud_coverage", 0)
CloudOfImage(img_name) ==
    IF img_name \in DOMAIN CatalogCloud THEN CatalogCloud[img_name] ELSE 0

Area(geom) == Cardinality(geom)

\* lines 330-356: the geometries found, and their (area, cloud) weights
FoundImages(group_images) ==
    SelectSeq(group_images, LAMBDA n : find_and_get_image_geometry(n) # None)

CollectGeometries(group_images) ==
    [i \in DOMAIN FoundImages(group_images) |->
        find_and_get_image_geometry(FoundImages(group_images)[i]).cells]

CollectWeights(group_images) ==
    [i \in DOMAIN FoundImages(group_images) |->
        [area  |-> Area(find_and_get_image_geometry(FoundImages(group_images)[i]).cells),
         cloud |-> CloudOfImage(FoundImages(group_images)[i])]]

\* lines 195-209: zip stops at the shortest of the three lists
ImagesInfo(group_geometries, group_images, image_weights) ==
    [i \in 1..Min2(Len(group_geometries), Min2(Len(group_images), Len(image_weights))) |->
        [geom   |-> group_geometries[i],
         name   |-> group_images[i],
         area   |-> Area(group_geometries[i] \cap aoi_geometry),
         cloud  |-> image_weights[i].cloud,
         weight |-> image_weights[i]]]

\* line 240: pair_overlap_ratio > 0.9
HighOverlap(overlap_area, smaller_area) == 10 * overlap_area > 9 * smaller_area

\* lines 252-259: unique contribution >= 0.05 of the AOI
ContributesAlways(unique_area) == TRUE

Contributes(unique_area) == 100 * unique_area >= 5 * Area(aoi_geometry)

\* lines 220-282: what the pair (i, j) decides
PairDecision(info_i, info_j) ==
    LET pair_intersection == (info_i.geom \cap info_j.geom) \cap aoi_geometry
        smaller_area == Min2(info_i.area, info_j.area)
        geom_i_aoi == info_i.geom \cap aoi_geometry
        geom_j_aoi == info_j.geom \cap aoi_geometry
        keep_i == Contributes(Area(geom_i_aoi \ geom_j_aoi))
        keep_j == Contributes(Area(geom_j_aoi \ geom_i_aoi))
    IN
    IF pair_intersection = {} THEN "both"
    ELSE IF ~(smaller_area > 0) THEN "both"
    ELSE IF ~HighOverlap(Area(pair_intersection), smaller_area) THEN "both"
    ELSE IF keep_i /\ keep_j THEN "both"
    ELSE IF keep_i THEN "drop_j"
    ELSE IF keep_j THEN "drop_i"
    ELSE IF info_i.cloud <= info_j.cloud THEN "drop_j"
    ELSE "drop_i"

\* lines 212-282: the two loops; dropping i leaves its inner loop
RECURSIVE PairLoop(_, _, _, _)
PairLoop(images_info, keep, i, j) ==
    IF i > Len(images_info) THEN keep
    ELSE IF ~keep[i] \/ j > Len(images_info) THEN PairLoop(images_info, keep, i + 1, i + 2)
    ELSE IF ~keep[j] THEN PairLoop(images_info, keep, i, j + 1)
    ELSE
    LET decision == PairDecision(images_info[i], images_info[j])
    IN
    IF decision = "drop_j"
    THEN PairLoop(images_info, [keep EXCEPT ![j] = FALSE], i, j + 1)
    ELSE IF decision = "drop_i"
    THEN PairLoop(images_info, [keep EXCEPT ![i] = FALSE], i + 1, i + 2)
    ELSE PairLoop(images_info, keep, i, j + 1)

\* lines 285-287: the entries marked keep, in order
RECURSIVE KeptFrom(_, _, _)
KeptFrom(seq, keep, i) ==
    IF i > Len(seq) THEN <<>>
    ELSE (IF keep[i] THEN <<seq[i]>> ELSE <<>>) \o KeptFrom(seq, keep, i + 1)

KeptOf(seq, keep) == KeptFrom(seq, keep, 1)

\* line 188
MinGeometriesToFilter == 3

\* lines 171-291
filter_high_overlap_images(group_geometries, group_images, image_weights) ==
    IF Len(group_geometries) < MinGeometriesToFilter
    THEN [geometries |-> group_geometries, images |-> group_images,
          weights |-> image_weights]
    ELSE
    LET images_info == ImagesInfo(group_geometries, group_images, image_weights)
        keep == PairLoop(images_info, [i \in DOMAIN images_info |-> TRUE], 1, 2)
    IN  [geometries |-> KeptOf([i \in DOMAIN images_info |-> images_info[i].geom], keep),
         images     |-> KeptOf([i \in DOMAIN images_info |-> images_info[i].name], keep),
         weights    |-> KeptOf([i \in DOMAIN images_info |-> images_info[i].weight], keep)]

\* lines 366-383: the lists the rest of the run works on
FilteredLists(group_images) ==
    LET group_geometries == CollectGeometries(group_images)
        image_weights == CollectWeights(group_images)
        unfiltered == [geometries |-> group_geometries, images |-> group_images,
                       weights |-> image_weights, selected_by_overlap |-> FALSE]
    IN
    IF Len(group_geometries) >= 2
    THEN LET filtered == filter_high_overlap_images(group_geometries, group_images,
                                                    image_weights)
         IN  IF Len(filtered.images) < Len(group_images)
             THEN [geometries |-> filtered.geometries, images |-> filtered.images,
                   weights |-> filtered.weights, selected_by_overlap |-> TRUE]
             ELSE unfiltered
    ELSE unfiltered

\* lines 385-396
TotalIndividualArea(group_geometries) ==
    SumOver(DOMAIN group_geometries,
            [i \in DOMAIN group_geometries |-> Area(group_geometries[i] \cap aoi_geometry)])

\* The pairwise term left out of the inclusion-exclusion sum.
TotalPairwiseOverlapNone(group_geometries) == 0

\* lines 398-414
TotalPairwiseOverlap(group_geometries) ==
    LET pairs == {r \in (DOMAIN group_geometries) \X (DOMAIN group_geometries) : r[1] < r[2]}
    IN  SumOver(pairs,
                [r \in pairs |->
                    Area((group_geometries[r[1]] \cap group_geometries[r[2]])
                            \cap aoi_geometry)])

\* lines 416-418: unary_union of the clipped geometries
RealCoverageGeometry(group_geometries) ==
    UNION {group_geometries[i] \cap aoi_geometry : i \in DOMAIN group_geometries}

\* lines 421-425
PieCoverage(group_geometries) ==
    Min2(TotalIndividualArea(group_geometries) - TotalPairwiseOverlap(group_geometries),
         Area(aoi_geometry))

\* lines 452-472: each image weighs in with the part of its clipped
\* geometry that no earlier image of the list covers
RECURSIVE WeightedCloudCoverage(_, _, _, _)
WeightedCloudCoverage(group_geometries, image_weights, idx, considered) ==
    IF idx > Min2(Len(group_geometries), Len(image_weights)) THEN 0
    ELSE Area((group_geometries[idx] \cap aoi_geometry) \ considered) * image_weights[idx].cloud
         + WeightedCloudCoverage(group_geometries, image_weights, idx + 1,
                                 considered \cup (group_geometries[idx] \cap aoi_geometry))

\* line 481: max(0.0, min(1.0, x)) of x = num / (100 * den)
Clamp01(x) ==
    IF x.num < 0 THEN [num |-> 0, den |-> x.den]
    ELSE IF x.num > 100 * x.den THEN [num |-> 100 * x.den, den |-> x.den]
    ELSE x

\* lines 446-482
AvgCloudCoverage(group_geometries, image_weights) ==
    LET union_area == Area(RealCoverageGeometry(group_geometries))
    IN  Clamp01(
            IF union_area > 0
            THEN [num |-> WeightedCloudCoverage(group_geometries, image_weights, 1, {}),
                  den |-> union_area]
            ELSE IF image_weights # <<>>
            THEN [num |-> SumOver(DOMAIN image_weights,
                                  [i \in DOMAIN image_weights |-> image_weights[i].cloud]),
                  den |-> Len(image_weights)]
            ELSE [num |-> 0, den |-> 1])

\* A mosaic group as JSON_PATH holds it before any run: the keys a run
\* writes are not there yet (status "input").
InputGroup(images) ==
    [group_id               |-> "mosaic_1",
     images                 |-> images,
     selected_by_overlap    |-> FALSE,
     status                 |-> "input",
     geometric_coverage     |-> [num |-> 0, den |-> 1],
     geometric_coverage_m2  |-> 0,
     total_individual_area  |-> 0,
     total_pairwise_overlap |-> 0,
     real_coverage_area     |-> 0,
     real_coverage_ratio    |-> [num |-> 0, den |-> 1],
     pie_coverage_area      |-> 0,
     pie_coverage_ratio     |-> [num |-> 0, den |-> 1],
     avg_cloud_coverage     |-> [num |-> 0, den |-> 1]]

\* lines 324-505, for one group of the deep copy
calculate_coverage_twotwo(group) ==
    IF CollectGeometries(group.images) = <<>>
    THEN [group EXCEPT !.geometric_coverage = [num |-> 0, den |-> 1],
                       !.avg_cloud_coverage = [num |-> 100, den |-> 1],
                       !.status = IF @ = "input" THEN "no_geometry" ELSE @]
    ELSE
    LET lists == FilteredLists(group.images)
        pie_coverage == PieCoverage(lists.geometries)
        real_coverage_area == Area(RealCoverageGeometry(lists.geometries))
        coverage_ratio == [num |-> pie_coverage, den |-> Area(aoi_geometry)]
    IN  [group_id               |-> group.group_id,
         images                 |-> lists.images,
         selected_by_overlap    |-> group.selected_by_overlap \/ lists.selected_by_overlap,
         status                 |-> "computed",
         geometric_coverage     |-> coverage_ratio,
         geometric_coverage_m2  |-> pie_coverage,
         total_individual_area  |-> TotalIndividualArea(lists.geometries),
         total_pairwise_overlap |-> TotalPairwiseOverlap(lists.geometries),
         real_coverage_area     |-> real_coverage_area,
         real_coverage_ratio    |-> [num |-> real_coverage_area, den |-> Area(aoi_geometry)],
         pie_coverage_area      |-> pie_coverage,
         pie_coverage_ratio     |-> coverage_ratio,
         avg_cloud_coverage     |-> AvgCloudCoverage(lists.geometries, lists.weights)]

\* main lines 524-526: the images of the group in the parameter file
LoadImage ==
    /\ area_pc = "loading"
    /\ Len(params.images) < MaxMosaicImages
    /\ \E img_name \in ImageNames \ Range(params.images) :
          params' = [params EXCEPT !.images = Append(@, img_name)]
    /\ UNCHANGED <<result_params, area_pc>>
    /\ UNCHANGED milp_vars
    /\ UNCHANGED greedy_vars
    /\ UNCHANGED ingest_vars

\* main lines 523-536
CalculateCoverage ==
    /\ area_pc = "loading"
    /\ \E result \in {calculate_coverage_twotwo(params)} :
          result_params' = result
    /\ area_pc' = "run1"
    /\ UNCHANGED params
    /\ UNCHANGED milp_vars
    /\ UNCHANGED greedy_vars
    /\ UNCHANGED ingest_vars

\* main lines 523-536, run on the file the previous run wrote
RerunCoverage ==
    /\ area_pc = "run1"
    /\ params' = result_params
    /\ \E result \in {calculate_coverage_twotwo(result_params)} :
          result_params' = result
    /\ area_pc' = "run2"
    /\ UNCHANGED milp_vars
    /\ UNCHANGED greedy_vars
    /\ UNCHANGED ingest_vars

InitArea ==
    /\ MilpIdle
    /\ GreedyIdle
    /\ IngestIdle
    /\ params = InputGroup(<<>>)
    /\ result_params = None
    /\ area_pc = "loading"

NextArea == LoadImage \/ CalculateCoverage \/ RerunCoverage

SpecArea == InitArea /\ [][NextArea]_vars

RunStates == {"run1", "run2"}

LeqRatio(x, y) == x.num * y.den <= y.num * x.den

C7_PieInUnitInterval ==
    (area_pc \in RunStates /\ result_params.status = "computed") =>
        /\ result_params.pie_coverage_ratio.num >= 0
        /\ result_params.pie_coverage_ratio.num <= result_params.pie_coverage_ratio.den

\* C8: when the mosaic holds two tiles with identical footprints inside the
\* AOI, the run leaves exactly the one with the smaller cloud_coverage in
\* images, also when the mosaic has only those two tiles.
C8_IdenticalFootprintsPruned ==
    area_pc = "run1" =>
        \A m, n \in Range(params.images) :
            ( /\ m # n
              /\ find_and_get_image_geometry(m) # None
              /\ find_and_get_image_geometry(n) # None
              /\ find_and_get_image_geometry(m) = find_and_get_image_geometry(n)
              /\ find_and_get_image_geometry(m).cells \cap aoi_geometry # {}
              /\ CloudOfImage(m) < CloudOfImage(n) )
            => /\ m \in Range(result_params.images)
               /\ n \notin Range(result_params.images)

\* C9: a second run on the result of a first run returns the same images.
C9_PruningIdempotent ==
    [][(area_pc = "run1" /\ area_pc' = "run2") =>
            result_params'.images = result_params.images]_vars

ClippedOf(img_name) == find_and_get_image_geometry(img_name).cells \cap aoi_geometry

\* C10: after a run that computed the coverage fields, avg_cloud_coverage is
\* in [0, 1]; over the tiles of images that have a footprint, in images
\* order, it is the sum of area(g_i minus the earlier g_k) * cloud_i over
\* area(U) when area(U) > 0, and the plain mean of the clouds otherwise.
C10_AvgCloudCoverage ==
    (area_pc \in RunStates /\ result_params.status = "computed") =>
        LET tiles == FoundImages(result_params.images)
            U == UNION {ClippedOf(tiles[i]) : i \in DOMAIN tiles}
            first_cover(i) ==
                ClippedOf(tiles[i]) \ UNION {ClippedOf(tiles[l]) : l \in 1..(i - 1)}
            weighted == SumOver(DOMAIN tiles,
                                [i \in DOMAIN tiles |->
                                    Cardinality(first_cover(i)) * CloudOfImage(tiles[i])])
            clouds == SumOver(DOMAIN tiles,
                              [i \in DOMAIN tiles |-> CloudOfImage(tiles[i])])
            avg == result_params.avg_cloud_coverage
        IN  /\ avg.num >= 0
            /\ avg.num <= 100 * avg.den
            /\ IF Cardinality(U) > 0
               THEN avg.num * Cardinality(U) = weighted * avg.den
               ELSE avg.num * Len(tiles) = clouds * avg.den

\* C21: a tile whose TCI raster has no CRS gets no footprint in C4: a mosaic
\* all of whose tiles are such tiles is left without geometry, and no image
\* of a computed mosaic has a footprint read under a substituted CRS.
C21_UnknownCrsIsFailure ==
    area_pc = "run1" =>
        /\ \A p \in DOMAIN params.images :
              TciCrs[params.images[p]] = "" =>
                  find_and_get_image_geometry(params.images[p]) = None
        /\ (params.images # <<>> /\ \A p \in DOMAIN params.images :
                                        TciCrs[params.images[p]] = "")
              => result_params.status = "no_geometry"

\* The AOI-clipped footprint of a tile and the quantities of a pair.
ClippedCells(img_name) == BoundsCells(FoundGeometry[img_name]) \cap aoi_geometry

RatioOver90(x, y) ==
    /\ Min2(Cardinality(ClippedCells(x)), Cardinality(ClippedCells(y))) > 0
    /\ 10 * Cardinality(ClippedCells(x) \cap ClippedCells(y))
          > 9 * Min2(Cardinality(ClippedCells(x)), Cardinality(ClippedCells(y)))

UniqueAtLeast5(x, y) ==
    100 * Cardinality(ClippedCells(x) \ ClippedCells(y)) >= 5 * Cardinality(aoi_geometry)

AllFootprintsFound(images) == \A p \in DOMAIN images : FoundGeometry[images[p]] # None

C23_ImagesAreKeptTiles ==
    (area_pc = "run1" /\ result_params.status = "computed")
        => LET named == {x \in Range(result_params.images) : FoundGeometry[x] # None}
               listed == {x \in Range(params.images) : FoundGeometry[x] # None}
           IN  /\ result_params.total_individual_area
                     = SumOver(named, [x \in named |-> Cardinality(ClippedCells(x))])
               /\ result_params.real_coverage_area
                     = Cardinality(UNION {ClippedCells(x) : x \in named})
               /\ named \subseteq listed
               /\ named # listed => Cardinality(listed) >= MinGeometriesToFilter

\* The instants of the base and the added tiles of a mosaic.
MosaicInstants(mosaic) ==
    {mosaic.base_image.date.t}
        \cup {mosaic.complementary_images[i].date.t : i \in DOMAIN mosaic.complementary_images}

\* C24: with the tile dates stored as ISO-8601 strings, a run in which a
\* candidate is added to a seed completes without raising, and every mosaic
\* it lists has start_date at the earliest and end_date at the latest instant
\* among its base and its added tiles.
C24_AdditionCompletes ==
    (date_repr = "str" /\ greedy_pc \in {"done", "raised"}) =>
        /\ SeedsWithAddition # {} => greedy_pc = "done"
        /\ \A i \in DOMAIN good_mosaic_combinations :
              LET mosaic == good_mosaic_combinations[i]
              IN  /\ \A t \in MosaicInstants(mosaic) : mosaic.start_date.t <= t
                  /\ \A t \in MosaicInstants(mosaic) : mosaic.end_date.t >= t
                  /\ mosaic.start_date.t \in MosaicInstants(mosaic)
                  /\ mosaic.end_date.t \in MosaicInstants(mosaic)

C26_TimeWindowSymmetric ==
    \A i, j \in DOMAIN AllAccepted :
        LET x == AllAccepted[i]
            y == AllAccepted[j]
            forth == calculate_compatibility_mosaics(x, y, MOSAIC_TIME_WINDOW_DAYS)
            back == calculate_compatibility_mosaics(y, x, MOSAIC_TIME_WINDOW_DAYS)
        IN  /\ (forth = None) <=> (back = None)
            /\ (/\ x.bounds # None /\ y.bounds # None /\ x.crs # "" /\ y.crs # ""
                /\ Abs(x.date.t - y.date.t) < (MOSAIC_TIME_WINDOW_DAYS + 1) * HalfDaysPerDay)
                   => forth # None /\ back # None

\* C27: in the objective the coverage A_j of a mosaic is weighted by the
\* quality_factor Q_j of that same mosaic, whatever its place in the list,
\* and the coverage-quality component of the validation report is the sum
\* of A_j * Q_j over the selected mosaics.
C27_QualityOfSameMosaic ==
    (milp_pc = "done" /\ mdl # None) =>
        /\ \A i \in DOMAIN mosaic_groups :
              LET group == mosaic_groups[i]
              IN  mdl.objective[group.group_id]
                      + alpha * 10000 + gamma * MaxCloudCoverage(group)
                    = 10 * group.geometric_coverage * group.quality_factor
        /\ main_report.validation # None =>
              main_report.validation.objective.coverage_quality
                 = SumOver(DOMAIN selected_groups_details,
                           [i \in DOMAIN selected_groups_details |->
                               10 * selected_groups_details[i].geometric_coverage
                                  * selected_groups_details[i].quality_factor])

\* The steps of the incremental coverage in the validation report.
ReportedSteps == main_report.validation.coverage_MILP.MILP_steps

\* The intersection of two mosaic groups of the solved model.
PairIntersection(j, k) ==
    IF <<j, k>> \in DOMAIN mdl.group_intersections THEN mdl.group_intersections[<<j, k>>]
    ELSE IF <<k, j>> \in DOMAIN mdl.group_intersections THEN mdl.group_intersections[<<k, j>>]
    ELSE 0

\* C28: the validation goes through the selected mosaics by descending A_j,
\* equal A_j by ascending mosaic id; the first step contributes A_j, each
\* later step max(0, A_j - sum of I_jk over the mosaics of the earlier
\* steps), and the reported incremental coverage is the sum of the steps.
C28_WitnessOrder ==
    (milp_pc = "done" /\ main_report.validation # None) =>
        /\ Len(ReportedSteps) = Cardinality(SelectedIds)
        /\ {ReportedSteps[i].group_id : i \in DOMAIN ReportedSteps} = SelectedIds
        /\ \A i, k \in DOMAIN ReportedSteps :
              i < k =>
                 \/ mdl.group_coverages[ReportedSteps[i].group_id]
                       > mdl.group_coverages[ReportedSteps[k].group_id]
                 \/ /\ mdl.group_coverages[ReportedSteps[i].group_id]
                          = mdl.group_coverages[ReportedSteps[k].group_id]
                    /\ ReportedSteps[i].group_id < ReportedSteps[k].group_id
        /\ \A i \in DOMAIN ReportedSteps :
              LET a == IntersectionScale * mdl.group_coverages[ReportedSteps[i].group_id]
                  before == {ReportedSteps[k].group_id : k \in 1..(i - 1)}
                  overlaps == SumOver(before,
                                      [prev \in before |->
                                          PairIntersection(ReportedSteps[i].group_id, prev)])
              IN  ReportedSteps[i].MILP_incremento
                     = IF i = 1 THEN a ELSE Max2(0, a - overlaps)
        /\ main_report.validation.coverage_MILP.true_coverage
              = SumOver(DOMAIN ReportedSteps,
                        [i \in DOMAIN ReportedSteps |-> ReportedSteps[i].MILP_incremento])

\* C29: in every returned selection each pair of selected mosaics has
\* I_jk = 0, so the coverage-floor expression, the coverage computed after
\* solving and the incremental coverage of the validation all equal the
\* plain sum of the selected A_j, which may exceed 1.
C29_PlainSum ==
    (milp_pc = "done" /\ mdl # None /\ selected_groups_details # <<>>) =>
        /\ \A j, k \in SelectedIds : j # k => PairIntersection(j, k) = 0
        /\ CoverageExpr(SelectedIds, mdl) = IntersectionScale * SelectedCoverage
        /\ TrueCoverage(SelectedIds, mdl) = IntersectionScale * SelectedCoverage
        /\ main_report.validation # None =>
              main_report.validation.coverage_MILP.true_coverage
                 = IntersectionScale * SelectedCoverage

\* C29 witness: two mosaics are selected together out of candidates that
\* list a shared tile only once, and their coverages sum to more than 1.
C29_Witness ==
    /\ milp_pc = "done"
    /\ main_report.validation # None
    /\ Len(selected_groups_details) = 2
    /\ \E i \in DOMAIN mosaic_groups : SharedTileA \in Range(mosaic_groups[i].images)
    /\ SelectedCoverage > 100
    /\ main_report.validation.coverage_MILP.true_coverage
          = IntersectionScale * SelectedCoverage

\* lines 345 and 369-372: the estimated coverage of a mosaic after its
\* first k additions, each judged against the base with the coverage
\* reached so far.
RECURSIVE CoverageAfter(_, _)
CoverageAfter(mosaic, k) ==
    IF k = 0 THEN mosaic.base_image.geographic_coverage
    ELSE calculate_compatibility_mosaics(
            [mosaic.base_image EXCEPT !.geographic_coverage = CoverageAfter(mosaic, k - 1)],
            mosaic.complementary_images[k],
            MOSAIC_TIME_WINDOW_DAYS).estimated_coverage_after_add

\* geographic_coverage, cloud_coverage and valid_pixels_percentage in [0,1]
UnitFields(img) ==
    /\ img.geographic_coverage \in 0..1000
    /\ img.cloud_coverage \in 0..100
    /\ img.valid_pixels_percentage \in 0..100

====
